---------------------------- MODULE Spec2Model ----------------------------
(***************************************************************************)
(* A model of the ESPN fantasy-football live tracker.                      *)
(*                                                                         *)
(*   - src/tracker/score_fetcher.py : ScoreFetcher, the shared service     *)
(*     (game clocks, live projection, team aggregation, ranking);          *)
(*   - src/fantasy_tracker.py : FantasyTracker, whose _update_scores is    *)
(*     the polling loop with backoff and game-day cadence.                 *)
(*                                                                         *)
(* Numbers.  Fantasy points are Python floats; the model keeps them as     *)
(* integers counted in thousandths of a point (12.5 points = 12500), and   *)
(* minutes_played as integers counted in seconds (30.0 minutes = 1800).    *)
(* Products and quotients are computed exactly as fractions and rounded    *)
(* where the code rounds (round(x, 2), the :.1f format), half to even; the *)
(* binary representation error of a float is not modelled.                 *)
(***************************************************************************)
EXTENDS Integers, Sequences, FiniteSets, TLC

VARIABLES
    pc,                   \* position of the operation under way
    player,               \* one roster entry (provider input)
    clock_data,           \* its resolved game-clock entry, <<>> when absent
    live_projection,      \* <<>> or <<result of _calculate_live_projection>>
    bucket,               \* the list the entry was appended to
    game_clocks,          \* ScoreFetcher.game_clocks
    team,                 \* a matchup side's team object (provider input)
    lineup,               \* its lineup (provider input)
    score,                \* its score (provider input), <<>> for None
    team_score,           \* <<>> or <<the TeamScore built from lineup>>
    teams,                \* input of _sort_and_rank_teams
    ranked,               \* its result
    impl,                 \* the class whose _get_live_scores the loop runs
    league,               \* self.league: TRUE when connected, FALSE for None
    consecutive_failures, \* local of _update_scores
    api_error,            \* self.api_error
    live_scores,          \* self.live_scores
    last_update,          \* self.last_update
    sleep_time,           \* local of _update_scores
    games_today_cache,    \* self.games_today_cache
    games_check_date,     \* self.games_check_date
    today,                \* the wall clock's calendar day
    hour,                 \* the hour read at line 373
    has_games,            \* the local has_games_today of line 374
    exc,                  \* the exception in flight, <<>> or <<its text>>
    outcome,              \* history: how the last try block ended
    streak,               \* history: Failures since the last Success
    ended_streak,         \* history: the Failures the last Success followed
    cycle,                \* history: number of iterations started
    calls,                \* history: the outbound calls of the cycle under way
    reader_pc,            \* position of a request handler reading the state
    seen,                 \* what the handler has read so far
    published,            \* history: the state each finished cycle left
    env,                  \* the environment variables of the process
    scoreboard,           \* the schedule feed's answer in this cycle
    box_scores,           \* the league provider's answer in this cycle
    snapshot,             \* <<>> or <<what the last build_snapshot returned>>
    current_week,         \* self.current_week
    week_feed,            \* what the schedule feed answers about the week now
    status_block,         \* a game's status block as the schedule feed gives it
    clock_minutes         \* <<>> or <<result of _calculate_minutes_played>>

playerVars == <<player, clock_data, live_projection, bucket>>
teamVars   == <<game_clocks, team, lineup, score, team_score>>
rankVars   == <<teams, ranked>>
schedVars  == <<impl, league, consecutive_failures, api_error, live_scores,
                last_update, sleep_time, games_today_cache, games_check_date,
                today, hour, has_games, exc, outcome, streak, ended_streak,
                cycle, calls>>
serveVars  == <<reader_pc, seen, published>>
snapVars   == <<env, scoreboard, box_scores, snapshot, current_week, week_feed>>
clockVars  == <<status_block, clock_minutes>>
vars == <<pc, playerVars, teamVars, rankVars, schedVars, serveVars, snapVars, clockVars>>

--------------------------------------------------------------------------
(* Python values *)

\* An attribute that may be missing is a sequence: <<>> when missing or None,
\* <<v>> when present.  getattr(obj, name, default) / dict.get(name, default).
Attr(obj, name, default) ==
    IF obj[name] = <<>> THEN default ELSE obj[name][1]

Max(a, b) == IF a >= b THEN a ELSE b
Min(a, b) == IF a <= b THEN a ELSE b

\* n / d rounded to the nearest integer, ties to the even one (n >= 0, d > 0).
RoundHalfEvenNat(n, d) ==
    LET q == n \div d
        r == n % d
    IN  IF 2 * r < d THEN q
        ELSE IF 2 * r > d THEN q + 1
        ELSE IF q % 2 = 0 THEN q ELSE q + 1

RoundHalfEven(n, d) ==
    IF n >= 0 THEN RoundHalfEvenNat(n, d) ELSE 0 - RoundHalfEvenNat(0 - n, d)

\* round(n/d, 2) of a value n/d in thousandths: a multiple of 10 thousandths.
Round2(n, d) == 10 * RoundHalfEven(n, 10 * d)

\* f"{x:.1f}" of a value in thousandths: the tenths it prints.
Fmt1(x) == RoundHalfEven(x, 100)

\* str.lower() on the letters the status names use.
UpperLetters == "ABCDEFGHIJKLMNOPQRSTUVWXYZ"
LowerLetters == "abcdefghijklmnopqrstuvwxyz"

LowerChar(c) ==
    IF \E i \in 1..Len(UpperLetters) : SubSeq(UpperLetters, i, i) = c
    THEN LET i == CHOOSE j \in 1..Len(UpperLetters) : SubSeq(UpperLetters, j, j) = c
         IN  SubSeq(LowerLetters, i, i)
    ELSE c

Lower(s) ==
    LET lowered[i \in 0..Len(s)] ==
            IF i = 0 THEN "" ELSE lowered[i - 1] \o LowerChar(SubSeq(s, i, i))
    IN  lowered[Len(s)]

\* Python's  w in s  on strings.
Contains(s, w) ==
    \E i \in 1..(Len(s) - Len(w) + 1) : SubSeq(s, i, i + Len(w) - 1) = w

--------------------------------------------------------------------------
(* ScoreFetcher: vocabularies *)

FINISHED_STATUSES == {"final", "final overtime", "post"}
ACTIVE_STATUSES == {"in", "live", "halftime", "end of period", "delayed"}
NOT_STARTED_WORDS == {"scheduled", "pre", "upcoming"}

--------------------------------------------------------------------------
(* ScoreFetcher._calculate_minutes_played *)

Digits == "0123456789"

IsDigit(c) == \E i \in 1..Len(Digits) : SubSeq(Digits, i, i) = c

DigitVal(c) == (CHOOSE i \in 1..Len(Digits) : SubSeq(Digits, i, i) = c) - 1

RECURSIVE AllDigits(_)
AllDigits(s) ==
    Len(s) = 0 \/ (IsDigit(SubSeq(s, 1, 1)) /\ AllDigits(SubSeq(s, 2, Len(s))))

RECURSIVE DigitsVal(_)
DigitsVal(s) ==
    IF Len(s) = 0 THEN 0
    ELSE 10 * DigitsVal(SubSeq(s, 1, Len(s) - 1)) + DigitVal(SubSeq(s, Len(s), Len(s)))

\* int(s) succeeds: an optional sign and at least one digit (the blanks and
\* underscores int() also takes do not occur in the clocks modelled).
IntParses(s) ==
    LET body == IF Len(s) > 0 /\ SubSeq(s, 1, 1) \in {"-", "+"}
                THEN SubSeq(s, 2, Len(s)) ELSE s
    IN  Len(body) > 0 /\ AllDigits(body)

IntOf(s) ==
    IF Len(s) > 0 /\ SubSeq(s, 1, 1) = "-" THEN 0 - DigitsVal(SubSeq(s, 2, Len(s)))
    ELSE IF Len(s) > 0 /\ SubSeq(s, 1, 1) = "+" THEN DigitsVal(SubSeq(s, 2, Len(s)))
    ELSE DigitsVal(s)

ColonsAt(s) == {i \in 1..Len(s) : SubSeq(s, i, i) = ":"}

HalfPlayedFallback == 1800

\* A variant that takes the clock for the time elapsed in the quarter.
MinutesPlayedClockElapsed(clock, period, status) ==
    LET status_lower == IF status = <<>> THEN "" ELSE Lower(status[1])
    IN  IF \E word \in FINISHED_STATUSES : Contains(status_lower, word) THEN 3600
        ELSE IF \E word \in NOT_STARTED_WORDS : Contains(status_lower, word) THEN 0
        ELSE IF clock = <<>> THEN HalfPlayedFallback
        ELSE LET c      == clock[1]
                 colons == ColonsAt(c)
                 two    == Cardinality(colons) = 1
                 at     == CHOOSE i \in colons : TRUE
                 part0  == SubSeq(c, 1, at - 1)
                 part1  == SubSeq(c, at + 1, Len(c))
             IN  IF two /\ ~(IntParses(part0) /\ IntParses(part1))
                 THEN HalfPlayedFallback
                 ELSE IF period = <<>> THEN HalfPlayedFallback
                 ELSE LET minutes == IF two THEN IntOf(part0) ELSE 0
                          seconds == IF two THEN IntOf(part1) ELSE 0
                          completed_quarters == Max(0, period[1] - 1)
                          total_minutes ==
                              completed_quarters * 900 + 60 * minutes + seconds
                      IN  Min(Max(total_minutes, 0), 3600)

\* clock, period and status are attributes as handed over by the feed: <<>>
\* stands for None.  The result is minutes_played in seconds.
_calculate_minutes_played(clock, period, status) ==
    LET status_lower == IF status = <<>> THEN "" ELSE Lower(status[1])
    IN  IF \E word \in FINISHED_STATUSES : Contains(status_lower, word) THEN 3600
        ELSE IF \E word \in NOT_STARTED_WORDS : Contains(status_lower, word) THEN 0
        ELSE IF clock = <<>> THEN HalfPlayedFallback         \* ":" in None raises
        ELSE LET c      == clock[1]
                 colons == ColonsAt(c)
                 two    == Cardinality(colons) = 1
                 at     == CHOOSE i \in colons : TRUE
                 part0  == SubSeq(c, 1, at - 1)
                 part1  == SubSeq(c, at + 1, Len(c))
             IN  IF two /\ ~(IntParses(part0) /\ IntParses(part1))
                 THEN HalfPlayedFallback                     \* int() raises
                 ELSE IF period = <<>> THEN HalfPlayedFallback   \* None - 1 raises
                 ELSE LET minutes == IF two THEN IntOf(part0) ELSE 0
                          seconds == IF two THEN IntOf(part1) ELSE 0
                          remaining_in_quarter == 60 * minutes + seconds
                          completed_quarters == Max(0, period[1] - 1)
                          minutes_in_current_quarter == 900 - remaining_in_quarter
                          total_minutes ==
                              completed_quarters * 900 + minutes_in_current_quarter
                      IN  Min(Max(total_minutes, 0), 3600)

\* One entry of the mapping _get_nfl_game_clocks builds for a game's teams.
ClockEntry(clock, period, status) ==
    [clock          |-> clock,
     period         |-> period,
     status         |-> <<Lower(status)>>,
     minutes_played |-> <<_calculate_minutes_played(<<clock>>, <<period>>, <<status>>)>>]

--------------------------------------------------------------------------
(* ScoreFetcher._calculate_live_projection *)

\* Variants of _calculate_live_projection with one slip each.
\* (a) the minutes_played >= 60 test of line 251 left out
LiveProjectionNoMinutesTest(pre_game_projection, current_points, minutes_played, game_played, game_status) ==
    IF game_played \in {<<100>>, <<2>>} \/ game_status \in FINISHED_STATUSES
    THEN current_points
    ELSE IF game_played = <<0>> THEN pre_game_projection
    ELSE LET s        == Max(0, Min(3600, minutes_played))
             baseline == Max(pre_game_projection, 0)
             actual   == Max(current_points, 0)
         IN  IF actual > baseline
             THEN Round2(actual * 7200 + (actual - baseline) * (7200 - s), 7200)
             ELSE Round2(actual * 3600 + (baseline - actual) * (3600 - s), 3600)

\* (b) the not-started test of line 254 left out
LiveProjectionNoNotStarted(pre_game_projection, current_points, minutes_played, game_played, game_status) ==
    IF \/ game_played \in {<<100>>, <<2>>}
       \/ game_status \in FINISHED_STATUSES
       \/ minutes_played >= 3600
    THEN current_points
    ELSE LET s        == Max(0, Min(3600, minutes_played))
             baseline == Max(pre_game_projection, 0)
             actual   == Max(current_points, 0)
         IN  IF actual > baseline
             THEN Round2(actual * 7200 + (actual - baseline) * (7200 - s), 7200)
             ELSE Round2(actual * 3600 + (baseline - actual) * (3600 - s), 3600)

\* (c) the bonus of line 265 shrinking with progress, not with half of it
LiveProjectionFullDecay(pre_game_projection, current_points, minutes_played, game_played, game_status) ==
    IF \/ game_played \in {<<100>>, <<2>>}
       \/ game_status \in FINISHED_STATUSES
       \/ minutes_played >= 3600
    THEN current_points
    ELSE IF game_played = <<0>> THEN pre_game_projection
    ELSE LET s        == Max(0, Min(3600, minutes_played))
             baseline == Max(pre_game_projection, 0)
             actual   == Max(current_points, 0)
         IN  IF actual > baseline
             THEN Round2(actual * 3600 + (actual - baseline) * (3600 - s), 3600)
             ELSE Round2(actual * 3600 + (baseline - actual) * (3600 - s), 3600)

\* (d) a player ahead of the projection is projected back down to it
LiveProjectionBackToBaseline(pre_game_projection, current_points, minutes_played, game_played, game_status) ==
    IF \/ game_played \in {<<100>>, <<2>>}
       \/ game_status \in FINISHED_STATUSES
       \/ minutes_played >= 3600
    THEN current_points
    ELSE IF game_played = <<0>> THEN pre_game_projection
    ELSE LET s        == Max(0, Min(3600, minutes_played))
             baseline == Max(pre_game_projection, 0)
             actual   == Max(current_points, 0)
             remaining_projection == Max(baseline - actual, 0)
         IN  IF actual > baseline
             THEN Round2(actual * 3600 - (actual - baseline) * s, 3600)
             ELSE Round2(actual * 3600 + remaining_projection * (3600 - s), 3600)

\* game_played is <<>> for None, else <<code>>; game_status is a string;
\* points in thousandths, minutes_played in seconds.
_calculate_live_projection(pre_game_projection, current_points, minutes_played, game_played, game_status) ==
    IF \/ game_played \in {<<100>>, <<2>>}
       \/ game_status \in FINISHED_STATUSES
       \/ minutes_played >= 3600
    THEN current_points
    ELSE IF game_played = <<0>> THEN pre_game_projection
    ELSE LET s        == Max(0, Min(3600, minutes_played))  \* progress = s/3600
             baseline == Max(pre_game_projection, 0)
             actual   == Max(current_points, 0)
             remaining_projection == Max(baseline - actual, 0)
         IN  IF actual > baseline
             THEN \* actual + (actual - baseline) * (1 - progress * 0.5)
                  Round2(actual * 7200 + (actual - baseline) * (7200 - s), 7200)
             ELSE \* actual + remaining_projection * (1 - progress)
                  Round2(actual * 3600 + remaining_projection * (3600 - s), 3600)

\* The list _build_team_data appends the entry's label to (lines 196-208).
\* A variant that does not know the alternate finished code 2.
BucketNoAlternate(game_played, game_status) ==
    IF game_played = <<0>> THEN "yet_to_play"
    ELSE IF game_played = <<1>> THEN "currently_playing"
    ELSE IF game_played = <<100>> THEN "finished_playing"
    ELSE IF game_status \in FINISHED_STATUSES THEN "finished_playing"
    ELSE IF game_status \in ACTIVE_STATUSES THEN "currently_playing"
    ELSE "yet_to_play"

Bucket(game_played, game_status) ==
    IF game_played = <<0>> THEN "yet_to_play"
    ELSE IF game_played = <<1>> THEN "currently_playing"
    ELSE IF game_played \in {<<100>>, <<2>>} THEN "finished_playing"
    ELSE IF game_status \in FINISHED_STATUSES THEN "finished_playing"
    ELSE IF game_status \in ACTIVE_STATUSES THEN "currently_playing"
    ELSE "yet_to_play"

--------------------------------------------------------------------------
(* ScoreFetcher._build_team_data: what it reads of one roster entry *)

PlayerName(p)        == Attr(p, "name", "Unknown")
PlayerPoints(p)      == Attr(p, "points", 0)            \* float(... or 0.0)
PreGameProjection(p) == Attr(p, "projected_points", 0)  \* float(... or 0.0)
ProTeam(p)           == Attr(p, "proTeam", "")
GamePlayed(p)        == p.game_played                   \* None is <<>>

\* self.game_clocks.get(pro_team, {})
ClockData(clocks, pro_team) ==
    IF pro_team \in DOMAIN clocks THEN <<clocks[pro_team]>> ELSE <<>>

\* A variant with the default of the older resolver (half played).
MinutesPlayedHalf(cd) == IF cd = <<>> THEN 1800 ELSE Attr(cd[1], "minutes_played", 1800)

\* clock_data.get("minutes_played", 0)
MinutesPlayed(cd) == IF cd = <<>> THEN 0 ELSE Attr(cd[1], "minutes_played", 0)

\* clock_data.get("status", "").lower()
GameStatus(cd) == IF cd = <<>> THEN "" ELSE Lower(Attr(cd[1], "status", ""))

LiveProjectionOf(p, cd) ==
    _calculate_live_projection(PreGameProjection(p), PlayerPoints(p),
                            MinutesPlayed(cd), GamePlayed(p), GameStatus(cd))

BucketOf(p, cd) == Bucket(GamePlayed(p), GameStatus(cd))

--------------------------------------------------------------------------
(* Bounded inputs *)

PointVals == {-2000, 0, 5000, 7125, 10000, 15000, 20000}
OptPoints == {<<>>} \cup {<<v>> : v \in PointVals}
GamePlayedVals == {<<>>, <<0>>, <<1>>, <<2>>, <<3>>, <<100>>}

ClockVals  == {"15:00", "7:30", "5:00", "0:00"}
PeriodVals == {1, 2, 4, 5}
StatusNames == {"STATUS_SCHEDULED", "STATUS_IN_PROGRESS", "STATUS_HALFTIME",
                "STATUS_FINAL", "in progress", "in", "final", "Halftime", "post"}

ClockEntries ==
    {ClockEntry(c, q, st) : c \in ClockVals, q \in PeriodVals, st \in StatusNames}

OptClockData == {<<>>} \cup {<<e>> : e \in ClockEntries}

Idle == "idle"

PlayerIdle == /\ player = <<>>
              /\ clock_data = <<>>
              /\ live_projection = <<>>
              /\ bucket = Idle
TeamIdle   == /\ game_clocks = <<>>
              /\ team = <<>>
              /\ lineup = <<>>
              /\ score = <<>>
              /\ team_score = <<>>
RankIdle   == /\ teams = <<>>
              /\ ranked = <<>>
SchedIdle  == /\ impl = Idle
              /\ league = FALSE
              /\ consecutive_failures = 0
              /\ api_error = <<>>
              /\ live_scores = <<>>
              /\ last_update = <<>>
              /\ sleep_time = 0
              /\ games_today_cache = <<>>
              /\ games_check_date = <<>>
              /\ today = 0
              /\ hour = 0
              /\ has_games = FALSE
              /\ exc = <<>>
              /\ outcome = Idle
              /\ streak = 0
              /\ ended_streak = 0
              /\ cycle = 0
              /\ calls = {}
ServeIdle  == /\ reader_pc = Idle
              /\ seen = <<>>
              /\ published = {}
SnapIdle   == /\ env = <<>>
              /\ scoreboard = <<>>
              /\ box_scores = <<>>
              /\ snapshot = <<>>
              /\ current_week = 0
              /\ week_feed = <<>>
ClockIdle  == /\ status_block = <<>>
              /\ clock_minutes = <<>>

--------------------------------------------------------------------------
(* One starter through the loop body of _build_team_data (lines 177-208) *)

InitPlayer ==
    /\ pc = "player"
    /\ \E pts \in OptPoints, pre \in OptPoints, gp \in GamePlayedVals :
           player = [name |-> <<"Josh Allen">>, slot_position |-> "QB",
                     points |-> pts, projected_points |-> pre,
                     proTeam |-> <<"BUF">>, game_played |-> gp]
    /\ clock_data \in OptClockData
    /\ live_projection = <<>>
    /\ bucket = Idle
    /\ TeamIdle /\ RankIdle /\ SchedIdle /\ ServeIdle /\ SnapIdle /\ ClockIdle

ProcessStarter ==
    /\ pc = "player"
    /\ live_projection' = <<LiveProjectionOf(player, clock_data)>>
    /\ bucket' = BucketOf(player, clock_data)
    /\ pc' = "player_done"
    /\ UNCHANGED <<player, clock_data, teamVars, rankVars, schedVars, serveVars, snapVars, clockVars>>

NextPlayer == ProcessStarter

SpecPlayer == InitPlayer /\ [][NextPlayer]_vars

PlayerDone == pc = "player_done"

\* The conditions of line 251 on the entry under way.
FinishedCase ==
    \/ GamePlayed(player) \in {<<100>>, <<2>>}
    \/ GameStatus(clock_data) \in FINISHED_STATUSES
    \/ MinutesPlayed(clock_data) >= 3600

\* C4: finished by play-state (100 or 2), by game status or by minutes_played
\* >= 60: the live projection is the player's actual points, unchanged.
C4_FinishedIsActual ==
    (PlayerDone /\ FinishedCase) => live_projection = <<PlayerPoints(player)>>

\* C4 witness: an in-progress play-state whose clock has run the full 60
\* minutes, with actual points that rounding or clamping would change.
C4_Witness ==
    /\ PlayerDone
    /\ GamePlayed(player) = <<1>>
    /\ GameStatus(clock_data) = "status_in_progress"
    /\ MinutesPlayed(clock_data) >= 3600
    /\ PlayerPoints(player) = 7125
    /\ PreGameProjection(player) = 20000
    /\ live_projection = <<7125>>

\* C5 as stated: play-state not started gives the pre-game projection for
\* every actual, minutes_played and game status.
C5_NotStartedIsPreGame ==
    (PlayerDone /\ GamePlayed(player) = <<0>>)
        => live_projection = <<PreGameProjection(player)>>

\* C5 amended: play-state not started, game status outside the finished
\* vocabulary and minutes_played < 60 give the pre-game projection, unchanged.
C5_NotStartedUnfinishedIsPreGame ==
    (PlayerDone /\ GamePlayed(player) = <<0>> /\ ~FinishedCase)
        => live_projection = <<PreGameProjection(player)>>

\* C5 witness: not started by play-state while the clock already runs and
\* points are on the board.
C5_Witness ==
    /\ PlayerDone
    /\ GamePlayed(player) = <<0>>
    /\ MinutesPlayed(clock_data) = 1800
    /\ PlayerPoints(player) = 15000
    /\ PreGameProjection(player) = 7125
    /\ live_projection = <<7125>>

InProgressCase ==
    /\ GamePlayed(player) \notin {<<0>>, <<2>>, <<100>>}
    /\ GameStatus(clock_data) \notin FINISHED_STATUSES
    /\ MinutesPlayed(clock_data) < 3600

\* C6: in progress, the live projection is a + max(baseline - a, 0) * (1 -
\* progress) when a <= baseline and a + (a - baseline) * (1 - progress / 2)
\* when a > baseline, to 2 decimals: a whole number of hundredths within half
\* a hundredth of the exact value; (20.0, 5.0, 30 min) gives 12.5 and
\* (10.0, 15.0, 30 min) gives 18.75.
C6_InProgressBlend ==
    (PlayerDone /\ InProgressCase) =>
        LET s  == MinutesPlayed(clock_data)
            b  == Max(PreGameProjection(player), 0)
            a  == Max(PlayerPoints(player), 0)
            lp == live_projection[1]
            exact7200 == IF a <= b THEN 7200 * a + 2 * (b - a) * (3600 - s)
                         ELSE 7200 * a + (a - b) * (7200 - s)
        IN  /\ lp % 10 = 0
            /\ 7200 * lp - exact7200 <= 5 * 7200
            /\ exact7200 - 7200 * lp <= 5 * 7200
            /\ (b = 20000 /\ a = 5000 /\ s = 1800) => lp = 12500
            /\ (b = 10000 /\ a = 15000 /\ s = 1800) => lp = 18750

\* C6 witness: the overperformance example, 10.0 projected, 15.0 scored, 30
\* minutes played.
C6_Witness ==
    /\ PlayerDone
    /\ InProgressCase
    /\ PreGameProjection(player) = 10000
    /\ PlayerPoints(player) = 15000
    /\ MinutesPlayed(clock_data) = 1800
    /\ live_projection = <<18750>>

\* C28: the list and the projection of a starter agree: listed in
\* yet_to_play it counts with its pre-game projection, listed in
\* finished_playing with its actual points, whatever the play-state, the
\* game status and minutes_played.
C28_BucketAgreesWithProjection ==
    PlayerDone =>
        /\ bucket = "yet_to_play" => live_projection = <<PreGameProjection(player)>>
        /\ bucket = "finished_playing" => live_projection = <<PlayerPoints(player)>>

\* Minutes at which the projection of the entry under way is compared.
MinuteGrid == {0, 450, 900, 1800, 2700, 3599}

\* the projection the entry under way would get at m seconds played
ProjectionAt(m) ==
    _calculate_live_projection(PreGameProjection(player), PlayerPoints(player), m,
                            GamePlayed(player), GameStatus(clock_data))

NonNegativeInProgress ==
    /\ PlayerDone /\ InProgressCase
    /\ PreGameProjection(player) >= 0
    /\ PlayerPoints(player) >= 0

\* C23 as stated: in progress, with pre_game >= 0 and actual >= 0, the
\* projection is never below actual, it does not grow as minutes_played
\* grows over [0, 60], and when actual exceeds the baseline the projection
\* stays above actual.
C23_NeverBelowActual ==
    NonNegativeInProgress =>
        LET s  == MinutesPlayed(clock_data)
            a  == PlayerPoints(player)
            b  == PreGameProjection(player)
            lp == live_projection[1]
        IN  /\ lp >= a
            /\ \A m \in MinuteGrid \cup {3600} :
                 /\ m >= s => ProjectionAt(m) <= lp
                 /\ m <= s => ProjectionAt(m) >= lp
            /\ a > b => lp > a

\* C23 amended: the projection is never below actual rounded to 2
\* decimals, it does not grow as minutes_played grows over [0, 60), and
\* when actual exceeds the baseline by 0.01 or more the projection stays
\* above actual, by a bonus that only shrinks.
C23_NeverBelowRoundedActual ==
    NonNegativeInProgress =>
        LET s  == MinutesPlayed(clock_data)
            a  == PlayerPoints(player)
            b  == PreGameProjection(player)
            lp == live_projection[1]
        IN  /\ lp >= Round2(a, 1)
            /\ \A m \in MinuteGrid :
                 /\ m >= s => ProjectionAt(m) <= lp
                 /\ m <= s => ProjectionAt(m) >= lp
            /\ a >= b + 10 =>
                 /\ lp > a
                 /\ \A m \in MinuteGrid :
                      /\ ProjectionAt(m) > a
                      /\ m > s => ProjectionAt(m) - a < lp - a

\* C23 witness: 20.0 scored against 10.0 projected, a quarter played: the
\* projection is 28.75, and 25.0 at the last second of the game.
C23_Witness ==
    /\ PlayerDone /\ InProgressCase
    /\ PlayerPoints(player) = 20000
    /\ PreGameProjection(player) = 10000
    /\ MinutesPlayed(clock_data) = 900
    /\ live_projection = <<28750>>
    /\ ProjectionAt(3599) = 25000

--------------------------------------------------------------------------
(* ScoreFetcher._get_nfl_game_clocks *)

\* The schedule feed is <<>> when unreachable or malformed (the except branch
\* returns {}), else <<games>>; a game names its two teams and its status.
RECURSIVE GameClocksOf(_)
GameClocksOf(games) ==
    IF games = <<>> THEN <<>>
    ELSE LET before == GameClocksOf(SubSeq(games, 1, Len(games) - 1))
             game   == games[Len(games)]
             entry  == ClockEntry(game.clock, game.period, game.status)
             abbrs  == {game.team1, game.team2} \ {""}
         IN  [t \in DOMAIN before \cup abbrs |->
                 IF t \in abbrs THEN entry ELSE before[t]]

_get_nfl_game_clocks(feed) == IF feed = <<>> THEN <<>> ELSE GameClocksOf(feed[1])

--------------------------------------------------------------------------
(* ScoreFetcher._build_team_data *)

\* A label is the f-string of lines 197-208: the name, which of the two
\* texts, and the number as :.1f prints it.
ProjLabel(p) == <<PlayerName(p), "proj", Fmt1(PreGameProjection(p))>>
PtsLabel(p)  == <<PlayerName(p), "pts", Fmt1(PlayerPoints(p))>>

EmptyTally ==
    [currently_playing |-> <<>>, yet_to_play |-> <<>>, finished_playing |-> <<>>,
     projected_total |-> 0, total_starters |-> 0]

\* Variants of the loop body with one slip each.
\* (a) total_starters counted before the bench test of line 174
TallyPlayerCountsBench(acc, p, clocks) ==
    LET cd == ClockData(clocks, ProTeam(p))
        b  == BucketOf(p, cd)
    IN  IF p.slot_position = "BE"
        THEN [acc EXCEPT !.total_starters = @ + 1]
        ELSE [currently_playing |->
                 IF b = "currently_playing"
                 THEN Append(acc.currently_playing, PtsLabel(p))
                 ELSE acc.currently_playing,
              yet_to_play |->
                 IF b = "yet_to_play"
                 THEN Append(acc.yet_to_play, ProjLabel(p))
                 ELSE acc.yet_to_play,
              finished_playing |->
                 IF b = "finished_playing"
                 THEN Append(acc.finished_playing, PtsLabel(p))
                 ELSE acc.finished_playing,
              projected_total |-> acc.projected_total + LiveProjectionOf(p, cd),
              total_starters  |-> acc.total_starters + 1]

\* (b) the live projection summed before the bench test of line 174
TallyPlayerSumsBench(acc, p, clocks) ==
    LET cd == ClockData(clocks, ProTeam(p))
        b  == BucketOf(p, cd)
    IN  IF p.slot_position = "BE"
        THEN [acc EXCEPT !.projected_total = @ + LiveProjectionOf(p, cd)]
        ELSE [currently_playing |->
                 IF b = "currently_playing"
                 THEN Append(acc.currently_playing, PtsLabel(p))
                 ELSE acc.currently_playing,
              yet_to_play |->
                 IF b = "yet_to_play"
                 THEN Append(acc.yet_to_play, ProjLabel(p))
                 ELSE acc.yet_to_play,
              finished_playing |->
                 IF b = "finished_playing"
                 THEN Append(acc.finished_playing, PtsLabel(p))
                 ELSE acc.finished_playing,
              projected_total |-> acc.projected_total + LiveProjectionOf(p, cd),
              total_starters  |-> acc.total_starters + 1]

\* (c) line 200 an  if  instead of an  elif : an entry with play-state 0 or 1
\* also runs the status fallback of lines 203-208
TallyPlayerSecondChain(acc, p, clocks) ==
    IF p.slot_position = "BE" THEN acc
    ELSE LET cd == ClockData(clocks, ProTeam(p))
             gp == GamePlayed(p)
             b2 == Bucket(IF gp \in {<<0>>, <<1>>} THEN <<>> ELSE gp, GameStatus(cd))
             playing  == IF gp = <<1>> THEN Append(acc.currently_playing, PtsLabel(p))
                         ELSE acc.currently_playing
             yet      == IF gp = <<0>> THEN Append(acc.yet_to_play, ProjLabel(p))
                         ELSE acc.yet_to_play
         IN  [currently_playing |->
                 IF b2 = "currently_playing" THEN Append(playing, PtsLabel(p))
                 ELSE playing,
              yet_to_play |->
                 IF b2 = "yet_to_play" THEN Append(yet, ProjLabel(p)) ELSE yet,
              finished_playing |->
                 IF b2 = "finished_playing"
                 THEN Append(acc.finished_playing, PtsLabel(p))
                 ELSE acc.finished_playing,
              projected_total |-> acc.projected_total + LiveProjectionOf(p, cd),
              total_starters  |-> acc.total_starters + 1]

\* One pass of the for loop of line 173.
TallyPlayer(acc, p, clocks) ==
    IF p.slot_position = "BE" THEN acc
    ELSE LET cd == ClockData(clocks, ProTeam(p))
             b  == BucketOf(p, cd)
         IN  [currently_playing |->
                 IF b = "currently_playing"
                 THEN Append(acc.currently_playing, PtsLabel(p))
                 ELSE acc.currently_playing,
              yet_to_play |->
                 IF b = "yet_to_play"
                 THEN Append(acc.yet_to_play, ProjLabel(p))
                 ELSE acc.yet_to_play,
              finished_playing |->
                 IF b = "finished_playing"
                 THEN Append(acc.finished_playing, PtsLabel(p))
                 ELSE acc.finished_playing,
              projected_total |-> acc.projected_total + LiveProjectionOf(p, cd),
              total_starters  |-> acc.total_starters + 1]

RECURSIVE Tally(_, _)
Tally(lu, clocks) ==
    IF lu = <<>> THEN EmptyTally
    ELSE TallyPlayer(Tally(SubSeq(lu, 1, Len(lu) - 1), clocks), lu[Len(lu)], clocks)

\* tm, lu, sc are the arguments team, lineup, score; sc is <<>> for None or
\* 0, which  float(score) if score else 0.0  turns into 0.0.
_build_team_data(tm, lu, sc, clocks) ==
    LET t == Tally(lu, clocks)
    IN  [team_name              |-> Attr(tm, "team_name", "Unknown Team"),
         live_score             |-> IF sc = <<>> THEN 0 ELSE sc[1],
         projected_score        |-> Round2(t.projected_total, 1),
         currently_playing      |-> t.currently_playing,
         yet_to_play            |-> t.yet_to_play,
         finished_playing       |-> t.finished_playing,
         players_playing_count  |-> Len(t.currently_playing),
         players_remaining_count |-> Len(t.yet_to_play),
         players_finished_count |-> Len(t.finished_playing),
         total_starters         |-> t.total_starters,
         rank                   |-> <<>>,
         is_current_top6        |-> FALSE,
         projected_rank         |-> <<>>,
         is_projected_top6      |-> FALSE]

\* The status of the starter's game as the clock mapping holds it, in
\* lower case; no status without clock data.
ResolvedStatus ==
    IF clock_data = <<>> \/ clock_data[1].status = <<>> THEN ""
    ELSE Lower(clock_data[1].status[1])

\* C19: the list a starter goes to is decided by the play-state: 0 gives
\* yet_to_play, 1 currently_playing, 100 and 2 finished_playing; for any
\* other or a missing play-state the game's status decides: a status of
\* the finished set gives finished_playing, one of the active set
\* currently_playing, anything else (no clock data included) yet_to_play.
C19_ClassifiedByPlayState ==
    PlayerDone =>
        LET code == player.game_played
        IN  /\ code = <<0>> => bucket = "yet_to_play"
            /\ code = <<1>> => bucket = "currently_playing"
            /\ code \in {<<100>>, <<2>>} => bucket = "finished_playing"
            /\ code \notin {<<0>>, <<1>>, <<100>>, <<2>>} =>
                 /\ ResolvedStatus \in {"final", "final overtime", "post"}
                      => bucket = "finished_playing"
                 /\ ResolvedStatus \in {"in", "live", "halftime", "end of period",
                                        "delayed"}
                      => bucket = "currently_playing"
                 /\ ResolvedStatus \notin {"final", "final overtime", "post", "in",
                                           "live", "halftime", "end of period",
                                           "delayed"}
                      => bucket = "yet_to_play"

\* C19 witness: a starter with the unknown play-state 3 whose game is at
\* halftime is listed as currently playing.
C19_Witness ==
    /\ PlayerDone
    /\ player.game_played = <<3>>
    /\ ResolvedStatus = "halftime"
    /\ bucket = "currently_playing"

--------------------------------------------------------------------------
(* One side of a matchup through _build_team_data *)

MaxLineup == 3

\* The week's slate: one game per stage, status names as the feed spells
\* them and as the vocabularies spell them.
Slate ==
    << [team1 |-> "BUF", team2 |-> "MIA", clock |-> "5:00", period |-> 2,
        status |-> "STATUS_IN_PROGRESS"],
       [team1 |-> "JAX", team2 |-> "HOU", clock |-> "0:00", period |-> 4,
        status |-> "STATUS_FINAL"],
       [team1 |-> "KC", team2 |-> "DEN", clock |-> "15:00", period |-> 1,
        status |-> "STATUS_SCHEDULED"],
       [team1 |-> "DAL", team2 |-> "NYG", clock |-> "0:00", period |-> 2,
        status |-> "halftime"],
       [team1 |-> "SF", team2 |-> "", clock |-> "0:00", period |-> 4,
        status |-> "Final"] >>

Feeds == {<<>>, <<Slate>>}

\* The provider's players this week (slot_position is set by the lineup).
Roster ==
    { [name |-> <<"Josh Allen">>, proTeam |-> <<"BUF">>, points |-> <<15000>>,
       projected_points |-> <<10000>>, game_played |-> <<1>>],
      [name |-> <<"Josh Allen">>, proTeam |-> <<"JAX">>, points |-> <<7125>>,
       projected_points |-> <<9500>>, game_played |-> <<100>>],
      [name |-> <<"Patrick Mahomes">>, proTeam |-> <<"KC">>, points |-> <<>>,
       projected_points |-> <<20375>>, game_played |-> <<0>>],
      [name |-> <<>>, proTeam |-> <<>>, points |-> <<>>,
       projected_points |-> <<>>, game_played |-> <<>>],
      [name |-> <<"CeeDee Lamb">>, proTeam |-> <<"DAL">>, points |-> <<12345>>,
       projected_points |-> <<8000>>, game_played |-> <<>>],
      [name |-> <<"Texans D/ST">>, proTeam |-> <<"HOU">>, points |-> <<-2000>>,
       projected_points |-> <<5000>>, game_played |-> <<0>>],
      [name |-> <<>>, proTeam |-> <<"MIA">>, points |-> <<5000>>,
       projected_points |-> <<20000>>, game_played |-> <<1>>] }

Slots == {"BE", "RB"}

WithSlot(r, slot) ==
    [name |-> r.name, slot_position |-> slot, points |-> r.points,
     projected_points |-> r.projected_points, proTeam |-> r.proTeam,
     game_played |-> r.game_played]

\* Lineups of at most MaxLineup entries, no player listed twice.
Lineups ==
    UNION { { [i \in 1..n |-> WithSlot(f[i][1], f[i][2])] :
                f \in { g \in [1..n -> Roster \X Slots] :
                          \A i, j \in 1..n : i # j => g[i][1] # g[j][1] } } :
            n \in 0..MaxLineup }

\* A named side with a score, and a side with neither.
Sides == { <<[team_name |-> <<"Gridiron Gang">>], <<101500>>>>,
           <<[team_name |-> <<>>], <<>>>> }

InitTeam ==
    /\ pc = "team"
    /\ \E feed \in Feeds : game_clocks = _get_nfl_game_clocks(feed)
    /\ lineup \in Lineups
    /\ \E side \in Sides : team = side[1] /\ score = side[2]
    /\ team_score = <<>>
    /\ PlayerIdle /\ RankIdle /\ SchedIdle /\ ServeIdle /\ SnapIdle /\ ClockIdle

BuildTeam ==
    /\ pc = "team"
    /\ team_score' = <<_build_team_data(team, lineup, score, game_clocks)>>
    /\ pc' = "team_done"
    /\ UNCHANGED <<game_clocks, team, lineup, score, playerVars, rankVars, schedVars,
                   serveVars, snapVars, clockVars>>

NextTeam == BuildTeam

SpecTeam == InitTeam /\ [][NextTeam]_vars

TeamDone == pc = "team_done"

IsStarter(p) == p.slot_position # "BE"
Starters == SelectSeq(lineup, IsStarter)

Range(seq) == {seq[i] : i \in 1..Len(seq)}

\* The player names a label list shows.
NamesIn(labels) == {l[1] : l \in Range(labels)}

\* C1: the three counts of a built TeamScore add up to total_starters, the
\* number of non-bench entries of the lineup, and each count is the length
\* of its list.
C1_CountsPartitionStarters ==
    TeamDone =>
        LET ts == team_score[1]
        IN  /\ ts.players_playing_count + ts.players_remaining_count
                 + ts.players_finished_count = ts.total_starters
            /\ ts.total_starters = Len(Starters)
            /\ ts.players_playing_count = Len(ts.currently_playing)
            /\ ts.players_remaining_count = Len(ts.yet_to_play)
            /\ ts.players_finished_count = Len(ts.finished_playing)

\* C1 witness: a lineup with a bench entry whose starters fill all three lists.
C1_Witness ==
    /\ TeamDone
    /\ Len(lineup) = 3
    /\ team_score[1].total_starters = 2
    /\ team_score[1].players_playing_count = 1
    /\ team_score[1].players_finished_count = 1

RECURSIVE SumLiveProjections(_)
SumLiveProjections(ps) ==
    IF ps = <<>> THEN 0
    ELSE LiveProjectionOf(ps[1], ClockData(game_clocks, ProTeam(ps[1])))
           + SumLiveProjections(Tail(ps))

\* C7: bench entries contribute nothing.  The TeamScore is the one the
\* lineup without its bench entries gives, the lists hold one label per
\* starter, and projected_score is the sum of the live projections of all
\* starters, whatever their list, rounded to 2 decimals.
C7_BenchExcluded ==
    TeamDone =>
        LET ts == team_score[1]
        IN  /\ ts = _build_team_data(team, Starters, score, game_clocks)
            /\ Len(ts.currently_playing) + Len(ts.yet_to_play)
                 + Len(ts.finished_playing) = Len(Starters)
            /\ ts.projected_score = Round2(SumLiveProjections(Starters), 1)

\* C7 witness: a bench entry with points and a projection of its own, next
\* to a starter yet to play and a finished one, none currently playing.
C7_Witness ==
    /\ TeamDone
    /\ Len(lineup) = 3
    /\ \E i \in 1..3 : /\ lineup[i].slot_position = "BE"
                       /\ PlayerPoints(lineup[i]) = 15000
    /\ team_score[1].players_playing_count = 0
    /\ team_score[1].players_remaining_count = 1
    /\ team_score[1].players_finished_count = 1
    /\ team_score[1].projected_score = 27500

ListsDisjointByName ==
    LET ts == team_score[1]
    IN  /\ NamesIn(ts.currently_playing) \cap NamesIn(ts.yet_to_play) = {}
        /\ NamesIn(ts.currently_playing) \cap NamesIn(ts.finished_playing) = {}
        /\ NamesIn(ts.yet_to_play) \cap NamesIn(ts.finished_playing) = {}

\* C8 as stated: for any lineup no player name occurs in two of the lists.
C8_ListsDisjointByName == TeamDone => ListsDisjointByName

StarterNamesDistinct ==
    \A i, j \in 1..Len(Starters) :
        i # j => PlayerName(Starters[i]) # PlayerName(Starters[j])

\* C8 amended: when no two starters of the lineup carry the same name (the
\* default name of a nameless entry included), no player name occurs in two
\* of the lists.
C8_DistinctNamesDisjointLists ==
    (TeamDone /\ StarterNamesDistinct) => ListsDisjointByName

\* C8 witness: three starters with three names, one in each list.
C8_Witness ==
    /\ TeamDone
    /\ StarterNamesDistinct
    /\ Len(Starters) = 3
    /\ team_score[1].players_playing_count = 1
    /\ team_score[1].players_remaining_count = 1
    /\ team_score[1].players_finished_count = 1

--------------------------------------------------------------------------
(* ScoreFetcher._sort_and_rank_teams *)

\* list.sort / sorted with reverse=True are stable: records with equal keys
\* keep their order.  The sort is modelled on positions: order is a sequence
\* of positions of ts, by key descending, and i is put behind every position
\* whose key is not smaller.
\* A variant that puts i in front of the positions with an equal key.
InsertDescBeforeEqual(order, i, ts, key) ==
    LET smaller == {k \in 1..Len(order) : ts[order[k]][key] <= ts[i][key]}
        at == IF smaller = {} THEN Len(order) + 1
              ELSE CHOOSE k \in smaller : \A m \in smaller : k <= m
    IN  SubSeq(order, 1, at - 1) \o <<i>> \o SubSeq(order, at, Len(order))

InsertDesc(order, i, ts, key) ==
    LET smaller == {k \in 1..Len(order) : ts[order[k]][key] < ts[i][key]}
        at == IF smaller = {} THEN Len(order) + 1
              ELSE CHOOSE k \in smaller : \A m \in smaller : k <= m
    IN  SubSeq(order, 1, at - 1) \o <<i>> \o SubSeq(order, at, Len(order))

RECURSIVE SortedPositions(_, _, _)
SortedPositions(ts, key, n) ==
    IF n = 0 THEN <<>>
    ELSE InsertDesc(SortedPositions(ts, key, n - 1), n, ts, key)

\* teams.sort(key=lambda team: team[key], reverse=True)
SortDesc(ts, key) ==
    LET order == SortedPositions(ts, key, Len(ts))
    IN  [i \in 1..Len(ts) |-> ts[order[i]]]

TopCohort == 6

\* Variants of the enumerate loops with the flag one position too wide.
WithRankWide(ts) ==
    [i \in 1..Len(ts) |->
        [ts[i] EXCEPT !.rank = <<i>>, !.is_current_top6 = (i - 1 <= TopCohort)]]

\* lines 230-232: enumerate(teams)
WithRank(ts) ==
    [i \in 1..Len(ts) |->
        [ts[i] EXCEPT !.rank = <<i>>, !.is_current_top6 = (i - 1 < TopCohort)]]

\* lines 234-237: the records are shared with projected_sorted, so each
\* record of ts gets the position it has in the projected order.
WithProjectedRank(ts) ==
    LET order == SortedPositions(ts, "projected_score", Len(ts))
        place(i) == CHOOSE k \in 1..Len(order) : order[k] = i
    IN  [i \in 1..Len(ts) |->
            [ts[i] EXCEPT !.projected_rank = <<place(i)>>,
                          !.is_projected_top6 = (place(i) - 1 < TopCohort)]]

\* A variant that ranks the projections on the list as it came in.
SortAndRankProjectedFirst(ts) ==
    SortDesc(WithRank(SortDesc(WithProjectedRank(ts), "live_score")), "live_score")

_sort_and_rank_teams(ts) ==
    SortDesc(WithProjectedRank(WithRank(SortDesc(ts, "live_score"))), "live_score")

--------------------------------------------------------------------------
(* A week's TeamScore records through _sort_and_rank_teams *)

MaxTeams == 7
RichTeams == 4

\* Few records draw their live_score from three values, many from two.
LiveScores(n) == IF n <= RichTeams THEN {40000, 88200, 101500} ELSE {88200, 101500}
ProjectedScores == {95500, 110250}

\* The record _build_team_data gives for a side without starters, with the
\* scores set; the name tells the record's place in the input.
TeamRecord(i, live, projected) ==
    [_build_team_data([team_name |-> <<"Team " \o SubSeq(Digits, i + 1, i + 1)>>],
                   <<>>, <<live>>, <<>>)
        EXCEPT !.projected_score = projected]

InitRank ==
    /\ pc = "rank"
    /\ \E n \in 0..MaxTeams :
         \E live \in [1..n -> LiveScores(n)], projected \in [1..n -> ProjectedScores] :
            teams = [i \in 1..n |-> TeamRecord(i, live[i], projected[i])]
    /\ ranked = <<>>
    /\ PlayerIdle /\ TeamIdle /\ SchedIdle /\ ServeIdle /\ SnapIdle /\ ClockIdle

SortAndRank ==
    /\ pc = "rank"
    /\ ranked' = _sort_and_rank_teams(teams)
    /\ pc' = "rank_done"
    /\ UNCHANGED <<teams, playerVars, teamVars, schedVars, serveVars, snapVars, clockVars>>

NextRank == SortAndRank

SpecRank == InitRank /\ [][NextRank]_vars

RankDone == pc = "rank_done"

\* The place in the input of a record of the result.
InputPlace(r) == CHOOSE i \in 1..Len(teams) : teams[i].team_name = r.team_name

\* C2: rank and projected_rank each run over 1..N with no position used
\* twice and no record unranked, each top-6 flag says its rank is at most 6,
\* and min(N, 6) records carry each flag.
C2_RanksArePermutations ==
    RankDone =>
        LET N == Len(teams)
        IN  /\ Len(ranked) = N
            /\ \A i \in 1..N : ranked[i].rank # <<>> /\ ranked[i].projected_rank # <<>>
            /\ {ranked[i].rank[1] : i \in 1..N} = 1..N
            /\ {ranked[i].projected_rank[1] : i \in 1..N} = 1..N
            /\ \A i \in 1..N :
                 /\ ranked[i].is_current_top6 = (ranked[i].rank[1] <= 6)
                 /\ ranked[i].is_projected_top6 = (ranked[i].projected_rank[1] <= 6)
            /\ Cardinality({i \in 1..N : ranked[i].is_current_top6}) = Min(N, 6)
            /\ Cardinality({i \in 1..N : ranked[i].is_projected_top6}) = Min(N, 6)

\* C2 witness: seven records, so one falls out of each top 6, and not the
\* same one in both rankings.
C2_Witness ==
    /\ RankDone
    /\ Len(ranked) = 7
    /\ \E i \in 1..7 : ~ranked[i].is_current_top6 /\ ranked[i].is_projected_top6
    /\ \E i \in 1..7 : ranked[i].is_current_top6 /\ ~ranked[i].is_projected_top6

\* C3: the result holds the input records ordered by live_score descending,
\* rank is the place in the result, a strictly higher live_score has the
\* smaller rank, and equal live_scores keep their input order; live_scores
\* [88.2, 101.5, 101.5, 40.0] get ranks [3, 1, 2, 4].
C3_StableByLiveScore ==
    RankDone =>
        LET N == Len(teams)
            rankOfInput(k) ==
                (CHOOSE r \in Range(ranked) : r.team_name = teams[k].team_name).rank[1]
        IN  /\ Len(ranked) = N
            /\ \A k \in 1..N : \E i \in 1..N :
                 /\ ranked[i].team_name = teams[k].team_name
                 /\ ranked[i].live_score = teams[k].live_score
                 /\ ranked[i].projected_score = teams[k].projected_score
            /\ \A i \in 1..N : ranked[i].rank = <<i>>
            /\ \A i, j \in 1..N :
                 i < j => ranked[i].live_score >= ranked[j].live_score
            /\ \A i, j \in 1..N :
                 (i < j /\ ranked[i].live_score = ranked[j].live_score)
                     => InputPlace(ranked[i]) < InputPlace(ranked[j])
            /\ \A k, m \in 1..N :
                 teams[k].live_score > teams[m].live_score
                     => rankOfInput(k) < rankOfInput(m)
            /\ (N = 4 /\ [k \in 1..4 |-> teams[k].live_score]
                            = <<88200, 101500, 101500, 40000>>)
                 => [k \in 1..4 |-> rankOfInput(k)] = <<3, 1, 2, 4>>

\* C3 witness: the four-team example with its tie at 101.5.
C3_Witness ==
    /\ RankDone
    /\ Len(teams) = 4
    /\ [k \in 1..4 |-> teams[k].live_score] = <<88200, 101500, 101500, 40000>>
    /\ [i \in 1..4 |-> ranked[i].team_name] = <<"Team 2", "Team 3", "Team 1", "Team 4">>

\* projected_rank follows projected_score: a strictly higher projected_score
\* has the smaller projected_rank.
ProjectedRankFollowsScore ==
    \A i, j \in 1..Len(ranked) :
        ranked[i].projected_score > ranked[j].projected_score
            => ranked[i].projected_rank[1] < ranked[j].projected_rank[1]

\* C22 as stated: projected_rank depends only on projected_score and the
\* order of the input; records with equal projected_score get their
\* projected ranks in input order, whatever their live_scores.
C22_ProjectedTiesByInputOrder ==
    RankDone =>
        /\ ProjectedRankFollowsScore
        /\ \A i, j \in 1..Len(ranked) :
             (/\ ranked[i].projected_score = ranked[j].projected_score
              /\ InputPlace(ranked[i]) < InputPlace(ranked[j]))
                 => ranked[i].projected_rank[1] < ranked[j].projected_rank[1]

\* C22 amended: records with equal projected_score get their projected
\* ranks in the order of the live ranking (higher live_score first, equal
\* live_scores in input order).
C22_ProjectedTiesByLiveRank ==
    RankDone =>
        /\ ProjectedRankFollowsScore
        /\ \A i, j \in 1..Len(ranked) :
             (/\ ranked[i].projected_score = ranked[j].projected_score
              /\ \/ ranked[i].live_score > ranked[j].live_score
                 \/ /\ ranked[i].live_score = ranked[j].live_score
                    /\ InputPlace(ranked[i]) < InputPlace(ranked[j]))
                 => ranked[i].projected_rank[1] < ranked[j].projected_rank[1]

\* C22 witness: two records with the same projected_score, the later one
\* of the input with the higher live_score and the smaller projected_rank.
C22_Witness ==
    /\ RankDone
    /\ \E i, j \in 1..Len(ranked) :
          /\ ranked[i].projected_score = ranked[j].projected_score
          /\ InputPlace(ranked[i]) > InputPlace(ranked[j])
          /\ ranked[i].live_score > ranked[j].live_score
          /\ ranked[i].projected_rank[1] < ranked[j].projected_rank[1]

--------------------------------------------------------------------------
(* The polling loop: FantasyTracker._update_scores *)

\* The loop calls self._get_live_scores().  Two classes of the repository
\* define it: FantasyTracker (src/fantasy_tracker.py), which swallows every
\* provider error, and ScoreFetcher (src/tracker/score_fetcher.py, the shared
\* service the Flask app is to reuse), which records the error and re-raises.
\* impl says which of the two the loop runs.
Impls == {"FantasyTracker", "ScoreFetcher"}

MaxCycles == 6
MaxDay == 2

\* What the league provider does with box_scores(week): <<>> when it
\* answers, else the text of the exception it raises.
ProviderErrors == {"429 Too Many Requests (read timeout=10)", "Rate limit exceeded",
                   "Read timed out. (read timeout=10)", "Connection refused"}
ProviderAnswers == {<<>>} \cup {<<m>> : m \in ProviderErrors}

\* The ranked list a successful cycle builds from the provider's data.
ScoresOf(n) == <<[fetched_in_cycle |-> n]>>

ConnectError == "Unable to connect to ESPN. Check credentials."

\* What the schedule feed answers to the games-today check: <<>> when the
\* request raises, else the response; an event's day counts from today.
ScheduleAnswers ==
    { <<>>,
      <<[status_code |-> 500, events |-> <<>>]>>,
      <<[status_code |-> 200, events |-> <<>>]>>,
      <<[status_code |-> 200,
         events |-> <<[day |-> <<0>>, name |-> "STATUS_SCHEDULED", state |-> "pre"]>>]>>,
      <<[status_code |-> 200,
         events |-> <<[day |-> <<>>, name |-> "STATUS_FINAL", state |-> "post"],
                      [day |-> <<-1>>, name |-> "STATUS_IN_PROGRESS", state |-> "in"]>>]>>,
      <<[status_code |-> 200,
         events |-> <<[day |-> <<-1>>, name |-> "STATUS_FINAL", state |-> "post"]>>]>> }

\* FantasyTracker._check_if_games_today_or_tonight: <<TRUE>>, <<FALSE>>, or
\* <<>> for the None it returns when the response is not a 200.
RECURSIVE EventsSayGames(_, _, _)
EventsSayGames(events, names, states) ==
    IF events = <<>> THEN FALSE
    ELSE LET game == events[1]
         IN  \/ game.day = <<0>>
             \/ /\ game.day = <<-1>>
                /\ Lower(game.name) \in names \/ Lower(game.state) \in states
             \/ EventsSayGames(Tail(events), names, states)

tracker_check_if_games_today_or_tonight(answer) ==
    IF answer = <<>> THEN <<TRUE>>
    ELSE IF answer[1].status_code # 200 THEN <<>>
    ELSE <<EventsSayGames(answer[1].events,
                          {"in", "halftime", "end of period", "delayed", "in progress"},
                          {"in", "live"})>>

\* ScoreFetcher._check_if_games_today_or_tonight (raise_for_status)
fetcher_check_if_games_today_or_tonight(answer) ==
    IF answer = <<>> THEN <<TRUE>>
    ELSE IF answer[1].status_code # 200 THEN <<TRUE>>
    ELSE <<EventsSayGames(answer[1].events, ACTIVE_STATUSES, ACTIVE_STATUSES)>>

_check_if_games_today_or_tonight(answer) ==
    IF impl = "FantasyTracker" THEN tracker_check_if_games_today_or_tonight(answer)
    ELSE fetcher_check_if_games_today_or_tonight(answer)

Truthy(v) == v = <<TRUE>>

\* the schedule feed gave a 200 response
FeedAnswered(answer) == answer # <<>> /\ answer[1].status_code = 200

Hours == {3, 11, 12, 23}

\* lines 363-370: the message shown for a failure (without its warning sign)
RateLimitMessage == "API rate limited - updates temporarily slower"
TimeoutMessage == "API timeout - retrying..."
ConnectionIssues(n) ==
    "Connection issues - trying again... (" \o ToString(n) \o " failures)"

\* A variant of lines 363-366 that looks for "timeout" first.
ErrorKindTimeoutFirst(error_msg) ==
    IF Contains(Lower(error_msg), "timeout") THEN "timeout"
    ELSE IF Contains(error_msg, "429") \/ Contains(Lower(error_msg), "rate") THEN "rate"
    ELSE "other"

\* lines 363-366: the kind the substrings of the failure description give
ErrorKind(error_msg) ==
    IF Contains(error_msg, "429") \/ Contains(Lower(error_msg), "rate") THEN "rate"
    ELSE IF Contains(Lower(error_msg), "timeout") THEN "timeout"
    ELSE "other"

\* ErrorKind of the descriptions the provider gives, worked out once.
ErrorKinds == [error_msg \in ProviderErrors |-> ErrorKind(error_msg)]

\* A variant of lines 363-370 whose generic message starts one failure early.
ApiErrorForEarly(error_msg, failures) ==
    IF ErrorKinds[error_msg] = "rate" THEN <<RateLimitMessage>>
    ELSE IF ErrorKinds[error_msg] = "timeout" THEN <<TimeoutMessage>>
    ELSE IF failures >= 3 THEN <<ConnectionIssues(failures)>>
    ELSE <<>>

ApiErrorFor(error_msg, failures) ==
    IF ErrorKinds[error_msg] = "rate" THEN <<RateLimitMessage>>
    ELSE IF ErrorKinds[error_msg] = "timeout" THEN <<TimeoutMessage>>
    ELSE IF failures > 3 THEN <<ConnectionIssues(failures)>>
    ELSE <<>>

\* A variant of the sleep choice: the backoff without its cap of 600.
SleepTimeUncapped(failures, games, hr) ==
    IF failures > 0 THEN 60 * 2 ^ Min(failures, 4)
    ELSE IF Truthy(games) /\ 12 <= hr /\ hr <= 23 THEN 120
    ELSE IF Truthy(games) THEN 300
    ELSE 600

\* lines 375-386
SleepTime(failures, games, hr) ==
    IF failures > 0 THEN Min(600, 60 * 2 ^ Min(failures, 4))
    ELSE IF Truthy(games) /\ 12 <= hr /\ hr <= 23 THEN 120
    ELSE IF Truthy(games) THEN 300
    ELSE 600

\* FantasyTracker.__init__, up to the start of the thread
InitTracker ==
    /\ pc = "L353"
    /\ impl \in Impls
    /\ league \in BOOLEAN
    /\ consecutive_failures = 0
    /\ api_error = IF impl = "ScoreFetcher" /\ ~league THEN <<ConnectError>> ELSE <<>>
    /\ live_scores = <<>>
    /\ last_update = <<>>
    /\ sleep_time = 0
    /\ games_today_cache = <<>>
    /\ games_check_date = <<>>
    /\ today = 1
    /\ hour = 0
    /\ has_games = <<>>
    /\ exc = <<>>
    /\ outcome = "none"
    /\ streak = 0
    /\ ended_streak = 0
    /\ cycle = 0
    /\ calls = {}

InitSched ==
    /\ InitTracker
    /\ PlayerIdle /\ TeamIdle /\ RankIdle /\ ServeIdle /\ SnapIdle /\ ClockIdle

\* What the schedule feed answers to _get_nfl_game_clocks: a 200 response,
\* another response, or no response (the request raises).
ScoreboardAnswers == {"200", "503", "raises"}

\* line 353 with FantasyTracker._get_live_scores (lines 233-341): no league
\* gives []; a provider error is caught and gives [] as well; so does a feed
\* response other than 200, for which _get_nfl_game_clocks (lines 128-169)
\* returns None and the lookup of line 273 raises.
FetchTracker ==
    /\ pc = "L353" /\ impl = "FantasyTracker" /\ cycle < MaxCycles
    /\ cycle' = cycle + 1
    /\ \E answer \in ProviderAnswers, resp \in ScoreboardAnswers :
         IF ~league
         THEN /\ live_scores' = <<>>
              /\ calls' = {}
         ELSE /\ live_scores' = IF answer = <<>> /\ resp # "503"
                                THEN ScoresOf(cycle') ELSE <<>>
              /\ calls' = {<<"scoreboard", resp # "raises">>,
                           <<"box_scores", answer = <<>> >>}
    /\ pc' = "L354"
    /\ UNCHANGED <<impl, league, consecutive_failures, api_error, last_update,
                   sleep_time, games_today_cache, games_check_date, today, hour,
                   has_games, exc, outcome, streak, ended_streak>>

\* line 353 with ScoreFetcher._get_live_scores (lines 130-163): no league
\* gives [], a provider error is recorded in api_error and raised again.
FetchFetcher ==
    /\ pc = "L353" /\ impl = "ScoreFetcher" /\ cycle < MaxCycles
    /\ cycle' = cycle + 1
    /\ \E answer \in ProviderAnswers, resp \in ScoreboardAnswers :
         IF ~league
         THEN /\ live_scores' = <<>>
              /\ calls' = {}
              /\ pc' = "L354"
              /\ UNCHANGED <<api_error, exc>>
         ELSE /\ calls' = {<<"scoreboard", resp = "200">>,
                           <<"box_scores", answer = <<>> >>}
              /\ IF answer = <<>>
                 THEN /\ live_scores' = ScoresOf(cycle')
                      /\ api_error' = <<>>
                      /\ pc' = "L354"
                      /\ UNCHANGED exc
                 ELSE /\ api_error' = answer
                      /\ exc' = answer
                      /\ pc' = "L359"
                      /\ UNCHANGED live_scores
    /\ UNCHANGED <<impl, league, consecutive_failures, last_update, sleep_time,
                   games_today_cache, games_check_date, today, hour, has_games,
                   outcome, streak, ended_streak>>

\* line 354
StampUpdate ==
    /\ pc = "L354"
    /\ last_update' = <<cycle>>
    /\ pc' = "L355"
    /\ UNCHANGED <<impl, league, consecutive_failures, api_error, live_scores,
                   sleep_time, games_today_cache, games_check_date, today, hour,
                   has_games, exc, outcome, streak, ended_streak, cycle, calls>>

\* A variant of lines 355-356 that leaves the counter alone.
ResetKeepsCounter ==
    /\ pc = "L355"
    /\ api_error' = <<>>
    /\ outcome' = "Success"
    /\ streak' = 0
    /\ ended_streak' = streak
    /\ pc' = "L373"
    /\ UNCHANGED <<impl, league, consecutive_failures, live_scores, last_update,
                   sleep_time, games_today_cache, games_check_date, today, hour,
                   has_games, exc, cycle, calls>>

\* lines 355-356: the try block is through, the cycle is a Success
ResetOnSuccess ==
    /\ pc = "L355"
    /\ consecutive_failures' = 0
    /\ api_error' = <<>>
    /\ outcome' = "Success"
    /\ streak' = 0
    /\ ended_streak' = streak
    /\ pc' = "L373"
    /\ UNCHANGED <<impl, league, live_scores, last_update, sleep_time,
                   games_today_cache, games_check_date, today, hour, has_games,
                   exc, cycle, calls>>

\* A variant of lines 358-370 that gives up after three Failures in a row:
\* the exception leaves the loop and the thread ends.
HandleFailureGivesUp ==
    /\ pc = "L359"
    /\ consecutive_failures' = consecutive_failures + 1
    /\ api_error' = ApiErrorFor(exc[1], consecutive_failures')
    /\ exc' = <<>>
    /\ outcome' = "Failure"
    /\ streak' = streak + 1
    /\ UNCHANGED ended_streak
    /\ pc' = IF consecutive_failures' > 3 THEN "raised" ELSE "L373"
    /\ UNCHANGED <<impl, league, live_scores, last_update, sleep_time,
                   games_today_cache, games_check_date, today, hour, has_games,
                   cycle, calls>>

\* lines 358-370: the cycle is a Failure
HandleFailure ==
    /\ pc = "L359"
    /\ consecutive_failures' = consecutive_failures + 1
    /\ api_error' = ApiErrorFor(exc[1], consecutive_failures')
    /\ exc' = <<>>
    /\ outcome' = "Failure"
    /\ streak' = streak + 1
    /\ UNCHANGED ended_streak
    /\ pc' = "L373"
    /\ UNCHANGED <<impl, league, live_scores, last_update, sleep_time,
                   games_today_cache, games_check_date, today, hour, has_games,
                   cycle, calls>>

\* A variant of the sleep choice that asks the feed in every cycle.
ChooseSleepUncached ==
    /\ pc = "L373"
    /\ hour' \in Hours
    /\ \E answer \in ScheduleAnswers :
         /\ games_today_cache' = _check_if_games_today_or_tonight(answer)
         /\ calls' = calls \cup {<<"games_today", FeedAnswered(answer)>>}
    /\ games_check_date' = <<today>>
    /\ has_games' = games_today_cache'
    /\ sleep_time' = SleepTime(consecutive_failures, has_games', hour')
    /\ pc' = "L388"
    /\ UNCHANGED <<impl, league, consecutive_failures, api_error, live_scores,
                   last_update, today, exc, outcome, streak, ended_streak, cycle>>

\* lines 373-386, with _check_if_games_today_cached (lines 390-400) and
\* has_games_today (score_fetcher.py lines 340-346)
ChooseSleep ==
    /\ pc = "L373"
    /\ hour' \in Hours
    /\ IF games_check_date # <<today>>
       THEN /\ \E answer \in ScheduleAnswers :
                 /\ games_today_cache' = _check_if_games_today_or_tonight(answer)
                 /\ calls' = calls \cup {<<"games_today", FeedAnswered(answer)>>}
            /\ games_check_date' = <<today>>
       ELSE UNCHANGED <<games_today_cache, games_check_date, calls>>
    /\ has_games' = games_today_cache'
    /\ sleep_time' = SleepTime(consecutive_failures, has_games', hour')
    /\ pc' = "L388"
    /\ UNCHANGED <<impl, league, consecutive_failures, api_error, live_scores,
                   last_update, today, exc, outcome, streak, ended_streak, cycle>>

\* line 388: the sleep ends, on the same day or on the next one
Sleep ==
    /\ pc = "L388"
    /\ \E d \in {today, Min(today + 1, MaxDay)} : today' = d
    /\ pc' = "L353"
    /\ calls' = {}
    /\ UNCHANGED <<impl, league, consecutive_failures, api_error, live_scores,
                   last_update, sleep_time, games_today_cache, games_check_date,
                   hour, has_games, exc, outcome, streak, ended_streak, cycle>>

\* One step of the thread that runs _update_scores.
UpdateScoresStep ==
    \/ FetchTracker
    \/ FetchFetcher
    \/ StampUpdate
    \/ ResetOnSuccess
    \/ HandleFailure
    \/ ChooseSleep
    \/ Sleep

NextSched ==
    /\ UpdateScoresStep
    /\ UNCHANGED <<playerVars, teamVars, rankVars, serveVars, snapVars, clockVars>>

SpecSched == InitSched /\ [][NextSched]_vars

Sleeping == pc = "L388"

\* C9: after k >= 1 Failures in a row the sleep is min(600, 60 * 2^min(k, 4))
\* seconds whatever the game-day state: 120, 240, 480 for k = 1, 2, 3 and 600
\* from k = 4 on.
C9_BackoffSleep ==
    (Sleeping /\ streak >= 1) =>
        /\ sleep_time = Min(600, 60 * 2 ^ Min(streak, 4))
        /\ streak = 1 => sleep_time = 120
        /\ streak = 2 => sleep_time = 240
        /\ streak = 3 => sleep_time = 480
        /\ streak >= 4 => sleep_time = 600

\* C9 witness: a fifth Failure in a row, on a game day in prime time, sleeps
\* 600 seconds.
C9_Witness ==
    /\ Sleeping
    /\ streak = 5
    /\ Truthy(has_games)
    /\ hour = 12
    /\ sleep_time = 600

\* The game-day cadence of lines 381-386.
Cadence == IF Truthy(has_games) /\ 12 <= hour /\ hour <= 23 THEN 120
           ELSE IF Truthy(has_games) THEN 300
           ELSE 600

\* C10: a Success leaves the failure counter at 0 and api_error null, and
\* the sleep after it is the game-day cadence's, not the backoff's.
C10_SuccessResets ==
    (outcome = "Success" /\ pc \in {"L373", "L388"}) =>
        /\ consecutive_failures = 0
        /\ api_error = <<>>
        /\ Sleeping => sleep_time = Cadence

\* C10 witness: a Success after three Failures, sleeping the 300 seconds of
\* a game day outside prime time, where the backoff would have slept 600.
C10_Witness ==
    /\ Sleeping
    /\ outcome = "Success"
    /\ ended_streak = 3
    /\ live_scores = ScoresOf(4)
    /\ Truthy(has_games)
    /\ hour = 3
    /\ sleep_time = 300

\* The step of lines 358-370.
FailureStep == pc = "L359" /\ pc' = "L373"

\* The provider's failure descriptions by the kind a reader would give them.
RateLimited == {"429 Too Many Requests (read timeout=10)", "Rate limit exceeded"}
TimedOut == {"Read timed out. (read timeout=10)"}

\* C11 as stated: every Failure adds one to the counter of consecutive
\* failures and leaves api_error set, never null, to the rate-limit
\* message, the timeout message or the generic message with the count.
C11_FailureSetsMessage ==
    [][FailureStep =>
         /\ consecutive_failures' = consecutive_failures + 1
         /\ api_error' # <<>>
         /\ api_error'[1] \in {RateLimitMessage, TimeoutMessage,
                               ConnectionIssues(consecutive_failures')}]_vars

\* C11 amended: every Failure adds one to the counter; api_error becomes the
\* rate-limit message for a rate-limited call, else the timeout message for
\* a timed-out call, else the generic message with the count once the
\* counter is above 3, and null for a generic failure among the first three.
C11_FailureCategorizes ==
    [][FailureStep =>
         /\ consecutive_failures' = consecutive_failures + 1
         /\ api_error' =
              (IF exc[1] \in RateLimited THEN <<RateLimitMessage>>
               ELSE IF exc[1] \in TimedOut THEN <<TimeoutMessage>>
               ELSE IF consecutive_failures' > 3
                    THEN <<"Connection issues - trying again... ("
                             \o ToString(consecutive_failures') \o " failures)">>
               ELSE <<>>)]_vars

\* C11 witness: a fourth Failure in a row, of no known kind, shows the
\* generic message with its count after three Failures that showed nothing.
C11_Witness ==
    /\ pc = "L373"
    /\ outcome = "Failure"
    /\ consecutive_failures = 4
    /\ api_error = <<"Connection issues - trying again... (4 failures)">>

\* C26: a failure is classified from its description: with "429" or
\* "rate" in it (any case) api_error is the rate-limit message; otherwise
\* with "timeout" in it the timeout message; otherwise, once more than 3
\* failures have come in a row, the generic message with the count.
C26_ClassifiedBySubstring ==
    [][FailureStep =>
         LET description == exc[1]
             rate    == Contains(description, "429")
                          \/ Contains(Lower(description), "rate")
             timeout == Contains(Lower(description), "timeout")
             N       == consecutive_failures'
         IN  /\ rate => api_error' = <<RateLimitMessage>>
             /\ (~rate /\ timeout) => api_error' = <<TimeoutMessage>>
             /\ (~rate /\ ~timeout /\ N > 3) =>
                   api_error' = <<"Connection issues - trying again... ("
                                    \o ToString(N) \o " failures)">>]_vars

\* C26 witness: the second Failure in a row shows the timeout message.
C26_Witness ==
    /\ pc = "L373"
    /\ outcome = "Failure"
    /\ consecutive_failures = 2
    /\ api_error = <<TimeoutMessage>>

\* The matchup fetch of the cycle under way failed: box_scores raised.
ProviderCallFailed == <<"box_scores", FALSE>> \in calls

\* C13: a cycle whose matchup fetch fails or times out is a Failure: past
\* the try block its outcome is Failure, not Success, the counter of
\* consecutive failures is at least one and the sleep is the backoff's.
C13_ProviderFailureIsFailure ==
    (pc \in {"L373", "L388"} /\ ProviderCallFailed) =>
        /\ outcome = "Failure"
        /\ consecutive_failures >= 1
        /\ Sleeping => sleep_time = Min(600, 60 * 2 ^ Min(consecutive_failures, 4))

\* the games-today check of the cycle asked the schedule feed
FeedConsulted(cs) == \E ok \in BOOLEAN : <<"games_today", ok>> \in cs

\* C27: the games-today answer is cached by calendar day: a call on the
\* date of the last check returns the cached answer, whatever it was,
\* and does not ask the feed; a call on another date asks the feed and
\* caches its answer for that date.
C27_CachedOncePerDay ==
    [][(pc = "L373" /\ pc' = "L388") =>
         /\ games_check_date = <<today>> =>
               /\ ~FeedConsulted(calls')
               /\ games_today_cache' = games_today_cache
               /\ has_games' = games_today_cache
         /\ games_check_date # <<today>> => FeedConsulted(calls')
         /\ games_check_date' = <<today>>]_vars

\* C27 witness: the third cycle of the first day sleeps on the answer
\* cached in the first one, without asking the feed.
C27_Witness ==
    /\ Sleeping
    /\ cycle = 3
    /\ today = 1
    /\ games_check_date = <<1>>
    /\ ~FeedConsulted(calls)
    /\ has_games = <<TRUE>>

\* the games-today check of this cycle asked the feed and got no 200
GamesCheckFailed == <<"games_today", FALSE>> \in calls

\* C18: a cycle whose games-today check meets a feed error (no response, a
\* non-success response, an unreadable payload) takes it that games exist,
\* so after a Success it sleeps a game-day cadence, never the 600 seconds
\* of a day without games.
C18_FeedErrorAssumesGames ==
    (Sleeping /\ GamesCheckFailed) =>
        /\ Truthy(has_games)
        /\ consecutive_failures = 0 => sleep_time \in {120, 300}

\* C29: a cycle whose provider fetch fails leaves the published scores
\* as they were: line 353 does not replace them, with an empty list or
\* otherwise.
C29_FailedFetchKeepsScores ==
    [][(pc = "L353" /\ <<"box_scores", FALSE>> \in calls')
          => live_scores' = live_scores]_vars

--------------------------------------------------------------------------
(* The loop as the background thread runs it *)

\* _start_score_updates runs _update_scores in a thread of its own: the
\* thread keeps taking its next step, every call it makes returns or raises,
\* and time.sleep returns.
SpecSchedFair == SpecSched /\ WF_vars(NextSched)

\* C12: the loop never ends.  Wherever the try block leaves it, after a
\* Success or after a Failure of any kind and any number in a row, it goes
\* on to sleep, and from the sleep to line 353 and the next fetch (the model
\* stops fetching after MaxCycles iterations).
C12_LoopNeverStops ==
    /\ (pc \in {"L354", "L355", "L359", "L373"}) ~> Sleeping
    /\ Sleeping ~> (pc = "L353")
    /\ (pc = "L353" /\ cycle < MaxCycles) ~> (pc \in {"L354", "L359"})

\* C12 witness: back at line 353 for a sixth fetch after five Failures in a
\* row.
C12_Witness ==
    /\ pc = "L353"
    /\ cycle = 5
    /\ outcome = "Failure"
    /\ streak = 5

--------------------------------------------------------------------------
(* The request handlers next to the loop: FantasyTracker._setup_routes *)

\* Flask serves each request in a thread of its own while the loop runs in
\* its thread; reading or writing one attribute is one step.  seen holds the
\* values a handler has read, in the order it read them.
MaxServeCycles == 2

\* api_scores, line 470, and _render_dashboard, line 1094: self.live_scores
ReadLiveScores ==
    /\ reader_pc \in {Idle, "done"}
    /\ seen' = <<live_scores>>
    /\ reader_pc' \in {"L471", "L1095"}
    /\ UNCHANGED published

\* api_scores, line 471: self.last_update (read for the test and, when it
\* is set, again for isoformat(); it is never set back to None, so the two
\* reads give what one read gives), and the response is complete
ReadLastUpdateForApi ==
    /\ reader_pc = "L471"
    /\ seen' = Append(seen, last_update)
    /\ reader_pc' = "done"
    /\ UNCHANGED published

\* _render_dashboard, line 1095: self.last_update
ReadLastUpdate ==
    /\ reader_pc = "L1095"
    /\ seen' = Append(seen, last_update)
    /\ reader_pc' = "L1097"
    /\ UNCHANGED published

\* _render_dashboard, line 1097: self.api_error, and the page is rendered
ReadApiError ==
    /\ reader_pc = "L1097"
    /\ seen' = Append(seen, api_error)
    /\ reader_pc' = "done"
    /\ UNCHANGED published

HandlerStep ==
    \/ ReadLiveScores
    \/ ReadLastUpdateForApi
    \/ ReadLastUpdate
    \/ ReadApiError

\* The three attributes as they stand.
Published == <<live_scores, last_update, api_error>>

InitServe ==
    /\ InitTracker
    /\ PlayerIdle /\ TeamIdle /\ RankIdle /\ SnapIdle /\ ClockIdle
    /\ reader_pc = Idle
    /\ seen = <<>>
    /\ published = {Published}

NextServe ==
    \/ /\ UpdateScoresStep
       /\ cycle' <= MaxServeCycles
       /\ published' = IF pc' = "L373" THEN published \cup {Published'} ELSE published
       /\ UNCHANGED <<reader_pc, seen, playerVars, teamVars, rankVars, snapVars, clockVars>>
    \/ /\ HandlerStep
       /\ UNCHANGED <<pc, schedVars, playerVars, teamVars, rankVars, snapVars, clockVars>>

SpecServe == InitServe /\ [][NextServe]_vars

\* What a handler read is what some finished cycle left (or what the
\* constructor left): the scores and last_update, and for the dashboard the
\* api_error too, are those of one published state.
SeenIsPublished ==
    \E s \in published : \A i \in 1..Len(seen) : seen[i] = s[i]

\* C14: a handler never sees a half-updated state.  Looked at while the
\* loop sleeps, when every cycle so far is finished and its state published,
\* what a finished handler read is the state one finished cycle left.
C14_ReadersSeeOneCycle ==
    (reader_pc = "done" /\ Sleeping) => SeenIsPublished

--------------------------------------------------------------------------
(* ScoreFetcher: construction and build_snapshot *)

MaxSnapshots == 2

\* os.getenv gives None (<<>>) for a variable that is not set, else its
\* text, which may be empty.
Envs ==
    [ESPN_LEAGUE_ID : {<<>>, <<"">>, <<"637021">>, <<"my-league">>},
     ESPN_S2        : {<<>>, <<"AEBx%2Fs2">>},
     ESPN_SWID      : {<<>>, <<"{1F2A-SWID}">>}]

\* line 81: all([league_id, espn_s2, swid]); None and "" are false
IsSet(value) == value # <<>> /\ value[1] # ""

ConfigPresent(e) ==
    IsSet(e.ESPN_LEAGUE_ID) /\ IsSet(e.ESPN_S2) /\ IsSet(e.ESPN_SWID)

\* What the schedule feed answers to _get_current_week: <<>> when the
\* request raises, else the response with the week number it carries.
WeekAnswers ==
    { <<>>,
      <<[status_code |-> 200, week |-> <<9>>]>>,
      <<[status_code |-> 200, week |-> <<>>]>>,
      <<[status_code |-> 503, week |-> <<9>>]>> }

\* league.current_week of a connected league
LeagueWeek == 8
DefaultWeek == 1

\* lines 110-125; lg is self.league (TRUE when connected).  An exception
\* of the request leaves the try block, past the league's week, to line 125.
_get_current_week(answer, lg) ==
    IF answer = <<>> THEN DefaultWeek
    ELSE IF answer[1].status_code = 200 /\ answer[1].week # <<>> THEN answer[1].week[1]
    ELSE IF lg THEN LeagueWeek
    ELSE DefaultWeek

\* A variant of _connect_to_espn whose except branch forgets api_error.
ConnectToEspnSilent ==
    /\ pc = "L52"
    /\ \E reachable \in BOOLEAN :
         LET attempted == ConfigPresent(env) /\ IntParses(env.ESPN_LEAGUE_ID[1])
             answer    == week_feed
         IN  /\ league' = (attempted /\ reachable)
             /\ UNCHANGED api_error
             /\ current_week' = _get_current_week(answer, league')
             /\ calls' = {<<"League", reachable>> : x \in {1} \cap {IF attempted THEN 1 ELSE 0}}
                            \cup {<<"week", answer # <<>> >>}
    /\ pc' = "ready"
    /\ UNCHANGED <<env, scoreboard, box_scores, snapshot, game_clocks, exc, cycle,
                   week_feed>>

\* __init__, lines 52-53: _connect_to_espn (lines 73-95) and then
\* _get_current_week.  Missing configuration, a league id that is no
\* number and a League(...) that raises all end in the except branch.
ConnectToEspn ==
    /\ pc = "L52"
    /\ \E reachable \in BOOLEAN :
         LET attempted == ConfigPresent(env) /\ IntParses(env.ESPN_LEAGUE_ID[1])
             answer    == week_feed
         IN  /\ league' = (attempted /\ reachable)
             /\ api_error' = IF league' THEN api_error ELSE <<ConnectError>>
             /\ current_week' = _get_current_week(answer, league')
             /\ calls' = {<<"League", reachable>> : x \in {1} \cap {IF attempted THEN 1 ELSE 0}}
                            \cup {<<"week", answer # <<>> >>}
    /\ pc' = "ready"
    /\ UNCHANGED <<env, scoreboard, box_scores, snapshot, game_clocks, exc, cycle,
                   week_feed>>

\* The provider's entries carry slot_position once a lineup places them;
\* an entry as the roster lists it has no such attribute.
HasSlot(p) == "slot_position" \in DOMAIN p

\* line 174 reads player.slot_position with no default: AttributeError
LineupRaises(lu) == \E i \in 1..Len(lu) : ~HasSlot(lu[i])

MatchupsRaise(matchups) ==
    \E i \in 1..Len(matchups) :
        LineupRaises(matchups[i].home_lineup) \/ LineupRaises(matchups[i].away_lineup)

AttributeErrorText == "'BoxPlayer' object has no attribute 'slot_position'"

\* The loop of lines 140-154: home side, then away side, of every matchup.
RECURSIVE TeamsOf(_, _)
TeamsOf(matchups, clocks) ==
    IF matchups = <<>> THEN <<>>
    ELSE LET m == matchups[1]
         IN  << _build_team_data(m.home_team, m.home_lineup, m.home_score, clocks),
                _build_team_data(m.away_team, m.away_lineup, m.away_score, clocks) >>
             \o TeamsOf(Tail(matchups), clocks)

\* The roster's player of that name and team.
Pick(name, pro_team) ==
    CHOOSE r \in Roster : r.name = name /\ r.proTeam = pro_team

\* Lineups a matchup side may carry: starters of games in every stage with
\* a bench player, starters with attributes missing, an empty lineup, and
\* lineups with an entry that has no slot.
SnapLineups ==
    { << WithSlot(Pick(<<"Josh Allen">>, <<"BUF">>), "QB"),
         WithSlot(Pick(<<"Patrick Mahomes">>, <<"KC">>), "BE"),
         WithSlot(Pick(<<"CeeDee Lamb">>, <<"DAL">>), "WR") >>,
      << WithSlot(Pick(<<>>, <<>>), "RB"),
         WithSlot(Pick(<<"Texans D/ST">>, <<"HOU">>), "D/ST"),
         WithSlot(Pick(<<"Josh Allen">>, <<"JAX">>), "QB") >>,
      << WithSlot(Pick(<<>>, <<"MIA">>), "RB") >>,
      << >>,
      << Pick(<<>>, <<>>) >>,
      << WithSlot(Pick(<<"CeeDee Lamb">>, <<"DAL">>), "WR"),
         Pick(<<"Josh Allen">>, <<"BUF">>) >> }

Matchup(home, away) ==
    [home_team |-> [team_name |-> <<"Gridiron Gang">>], home_lineup |-> home,
     home_score |-> <<101500>>,
     away_team |-> [team_name |-> <<>>], away_lineup |-> away,
     away_score |-> <<>>]

OtherMatchup ==
    [home_team |-> [team_name |-> <<"Waiver Wire">>], home_lineup |-> <<>>,
     home_score |-> <<88250>>,
     away_team |-> [team_name |-> <<"Bye Week">>], away_lineup |-> <<>>,
     away_score |-> <<120000>>]

\* What league.box_scores(week) answers: an error, or the week's matchups.
BoxScoreAnswers ==
    { [error |-> <<e>>, matchups |-> <<>>] : e \in ProviderErrors }
      \cup { [error |-> <<>>, matchups |-> <<>>] }
      \cup { [error |-> <<>>, matchups |-> <<Matchup(h, a)>>] :
                h \in SnapLineups, a \in {l \in SnapLineups : Len(l) <= 1} }
      \cup { [error |-> <<>>, matchups |-> <<OtherMatchup, Matchup(h, h)>>] :
                h \in SnapLineups }

\* build_snapshot, lines 58-68, with _get_live_scores, lines 130-163.
\* A snapshot is returned unless _get_live_scores re-raises (line 163).
BuildSnapshot ==
    /\ pc = "ready"
    /\ cycle < MaxSnapshots
    /\ cycle' = cycle + 1
    /\ IF ~league
       THEN /\ calls' = {}
            /\ exc' = <<>>
            /\ snapshot' = <<[scores |-> <<>>, last_update |-> cycle',
                              week |-> current_week, api_error |-> api_error]>>
            /\ UNCHANGED <<api_error, game_clocks, scoreboard, box_scores>>
       ELSE \E feed \in Feeds, answer \in BoxScoreAnswers :
              LET clocks == _get_nfl_game_clocks(feed)
                  raised == IF answer.error # <<>> THEN answer.error
                            ELSE IF MatchupsRaise(answer.matchups)
                                 THEN <<AttributeErrorText>>
                                 ELSE <<>>
              IN  /\ scoreboard' = <<feed>>
                  /\ box_scores' = <<answer>>
                  /\ game_clocks' = clocks
                  /\ calls' = {<<"scoreboard", feed # <<>> >>,
                               <<"box_scores", answer.error = <<>> >>}
                  /\ exc' = raised
                  /\ api_error' = raised
                  /\ snapshot' =
                        IF raised # <<>> THEN <<>>
                        ELSE <<[scores |-> _sort_and_rank_teams(
                                              TeamsOf(answer.matchups, clocks)),
                                last_update |-> cycle',
                                week |-> current_week,
                                api_error |-> <<>>]>>
    /\ UNCHANGED <<pc, env, league, current_week, week_feed>>

\* The NFL week turns: the schedule feed reports the next week from now on.
WeekTurns ==
    /\ pc = "ready"
    /\ cycle < MaxSnapshots
    /\ week_feed = <<[status_code |-> 200, week |-> <<9>>]>>
    /\ week_feed' = <<[status_code |-> 200, week |-> <<10>>]>>
    /\ UNCHANGED <<pc, env, league, current_week, api_error, game_clocks, scoreboard,
                   box_scores, snapshot, exc, cycle, calls>>

InitSnapshot ==
    /\ pc = "L52"
    /\ env \in Envs
    /\ scoreboard = <<>>
    /\ box_scores = <<>>
    /\ snapshot = <<>>
    /\ current_week = DefaultWeek
    /\ week_feed \in WeekAnswers
    /\ SchedIdle
    /\ PlayerIdle /\ TeamIdle /\ RankIdle /\ ServeIdle /\ ClockIdle

NextSnapshot ==
    /\ ConnectToEspn \/ BuildSnapshot \/ WeekTurns
    /\ UNCHANGED <<playerVars, team, lineup, score, team_score, rankVars, impl,
                   consecutive_failures, live_scores, last_update, sleep_time,
                   games_today_cache, games_check_date, today, hour, has_games,
                   outcome, streak, ended_streak, serveVars, clockVars>>

SpecSnapshot == InitSnapshot /\ [][NextSnapshot]_vars

\* any of the league id and the two credentials is absent
ConfigMissing ==
    env.ESPN_LEAGUE_ID = <<>> \/ env.ESPN_S2 = <<>> \/ env.ESPN_SWID = <<>>

\* C15: with the league id or a credential missing, construction ends
\* without an exception and without a league, and every build_snapshot
\* after it returns no scores and the connection message as api_error,
\* having called neither the schedule feed nor the league provider.
C15_MissingConfigNoFetch ==
    (ConfigMissing /\ pc = "ready") =>
        /\ ~league
        /\ exc = <<>>
        /\ api_error = <<ConnectError>>
        /\ cycle > 0 =>
              /\ snapshot # <<>>
              /\ snapshot[1].scores = <<>>
              /\ snapshot[1].api_error = <<ConnectError>>
              /\ calls = {}
              /\ scoreboard = <<>> /\ box_scores = <<>>

\* C15 witness: the second build_snapshot of a process started without
\* credentials has returned.
C15_Witness ==
    /\ pc = "ready"
    /\ env.ESPN_LEAGUE_ID = <<"637021">> /\ env.ESPN_S2 = <<>>
    /\ cycle = 2
    /\ snapshot # <<>>
    /\ snapshot[1].scores = <<>>
    /\ snapshot[1].api_error = <<ConnectError>>

\* the league provider returned the week's matchups in the last cycle
ProviderAnswered ==
    /\ pc = "ready" /\ cycle > 0
    /\ box_scores # <<>>
    /\ box_scores[1].error = <<>>

\* C16: whatever attributes the roster entries of the returned matchups
\* lack (name, slot, points, projected points, team abbreviation,
\* play-state), the cycle raises nothing and returns a TeamScore for each
\* of the two sides of every matchup.
C16_MissingAttributesDefaulted ==
    ProviderAnswered =>
        /\ exc = <<>>
        /\ snapshot # <<>>
        /\ Len(snapshot[1].scores) = 2 * Len(box_scores[1].matchups)

\* The projection of a starter whose game has just started and has no
\* status: the actual points when the play-state says finished, the
\* pre-game projection when it says not started, else the larger of the
\* two, with the whole excess over the projection added as bonus.
JustStarted(p) ==
    LET a == Max(PlayerPoints(p), 0)
        b == Max(PreGameProjection(p), 0)
    IN  IF GamePlayed(p) \in {<<100>>, <<2>>} THEN PlayerPoints(p)
        ELSE IF GamePlayed(p) = <<0>> THEN PreGameProjection(p)
        ELSE IF a > b THEN Round2(2 * a - b, 1)
        ELSE Round2(b, 1)

RECURSIVE ExpectedProjected(_, _)
ExpectedProjected(lu, clocks) ==
    IF lu = <<>> THEN 0
    ELSE LET p == lu[1]
         IN  (IF p.slot_position = "BE" THEN 0
              ELSE IF ProTeam(p) \notin DOMAIN clocks THEN JustStarted(p)
              ELSE LiveProjectionOf(p, ClockData(clocks, ProTeam(p))))
             + ExpectedProjected(Tail(lu), clocks)

SideReported(tm, lu) ==
    \E i \in 1..Len(snapshot[1].scores) :
        /\ snapshot[1].scores[i].team_name = Attr(tm, "team_name", "Unknown Team")
        /\ snapshot[1].scores[i].projected_score
             = Round2(ExpectedProjected(lu, game_clocks), 1)

FeedDown == scoreboard = << <<>> >>

FeedWeek ==
    IF week_feed # <<>> /\ week_feed[1].status_code = 200 THEN week_feed[1].week
    ELSE <<>>

\* C24: construction resolves the week in three steps: the feed's week
\* number when the feed yields one; otherwise (feed unreachable,
\* non-success response, no integer week) the league's current week when
\* a league is connected; otherwise 1.
C24_WeekFallbackChain ==
    [][(pc = "L52" /\ pc' = "ready") =>
          current_week' = IF FeedWeek # <<>> THEN FeedWeek[1]
                          ELSE IF league' THEN LeagueWeek
                          ELSE 1]_vars

\* C25: every cycle reports the week resolved in that cycle: a snapshot
\* built while the feed yields week w carries week w.
C25_SnapshotCarriesFeedWeek ==
    [][(cycle' = cycle + 1 /\ snapshot' # <<>> /\ FeedWeek # <<>>) =>
          snapshot'[1].week = FeedWeek[1]]_vars

--------------------------------------------------------------------------
(* One status block of the schedule feed through _calculate_minutes_played *)

\* displayClock, period and type.name as a game's status block may carry
\* them; <<>> is None.
ClockTexts ==
    {<<>>} \cup {<<c>> : c \in {"15:00", "7:30", "5:00", "0:45", "0:00", "20:00",
                               "", "5", "1:2:3", "5:xx", ":30"}}
PeriodNumbers == {<<>>} \cup {<<q>> : q \in -1..6}
StatusTexts ==
    {<<>>} \cup {<<st>> : st \in {"in progress", "STATUS_IN_PROGRESS", "STATUS_HALFTIME",
                                 "STATUS_FINAL", "Final Overtime", "STATUS_POSTPONED",
                                 "STATUS_SCHEDULED", "pre", ""}}

InitClock ==
    /\ pc = "clock"
    /\ status_block \in [clock : ClockTexts, period : PeriodNumbers, status : StatusTexts]
    /\ clock_minutes = <<>>
    /\ PlayerIdle /\ TeamIdle /\ RankIdle /\ SchedIdle /\ ServeIdle /\ SnapIdle

CalculateMinutesPlayed ==
    /\ pc = "clock"
    /\ clock_minutes' = <<_calculate_minutes_played(status_block.clock,
                                                   status_block.period,
                                                   status_block.status)>>
    /\ pc' = "clock_done"
    /\ UNCHANGED <<status_block, playerVars, teamVars, rankVars, schedVars,
                   serveVars, snapVars>>

NextClock == CalculateMinutesPlayed

SpecClock == InitClock /\ [][NextClock]_vars

ClockDone == pc = "clock_done"

\* The seconds left in the quarter that a clock "M:S" shows.
SecondsLeft ==
    [c \in {"15:00", "7:30", "5:00", "0:45", "0:00", "20:00"} |->
        CASE c = "15:00" -> 900
          [] c = "7:30"  -> 450
          [] c = "5:00"  -> 300
          [] c = "0:45"  -> 45
          [] c = "0:00"  -> 0
          [] c = "20:00" -> 1200]

StatusLower ==
    IF status_block.status = <<>> THEN "" ELSE Lower(status_block.status[1])

StatusFinished ==
    \E word \in {"final", "final overtime", "post"} : Contains(StatusLower, word)

StatusNotStarted ==
    \E word \in {"scheduled", "pre", "upcoming"} : Contains(StatusLower, word)

\* a clock "M:S" and an integer period, the game neither finished nor
\* not started
ClockCase ==
    /\ ClockDone
    /\ ~StatusFinished /\ ~StatusNotStarted
    /\ status_block.clock # <<>>
    /\ status_block.clock[1] \in DOMAIN SecondsLeft
    /\ status_block.period # <<>>

Clamp(x, lo, hi) == Min(Max(x, lo), hi)

\* C20 as stated: 60 minutes for a finished status, else 0 for a status not
\* started, else for a clock "M:S" and every integer period
\* clamp((period - 1)*15 + 15 - (M + S/60), 0, 60); always within [0, 60].
C20_MinutesPlayedAsStated ==
    ClockDone =>
        /\ StatusFinished => clock_minutes = <<3600>>
        /\ (~StatusFinished /\ StatusNotStarted) => clock_minutes = <<0>>
        /\ ClockCase =>
              clock_minutes =
                << Clamp((status_block.period[1] - 1) * 900 + 900
                           - SecondsLeft[status_block.clock[1]], 0, 3600) >>
        /\ clock_minutes[1] \in 0..3600

\* C20 amended: as above, with the completed quarters counted as
\* max(period - 1, 0).
C20_MinutesPlayedFormula ==
    ClockDone =>
        /\ StatusFinished => clock_minutes = <<3600>>
        /\ (~StatusFinished /\ StatusNotStarted) => clock_minutes = <<0>>
        /\ ClockCase =>
              clock_minutes =
                << Clamp(Max(status_block.period[1] - 1, 0) * 900 + 900
                           - SecondsLeft[status_block.clock[1]], 0, 3600) >>
        /\ clock_minutes[1] \in 0..3600

\* C20 witness: clock "5:00", period 2, status "in progress" gives 25
\* minutes.
C20_Witness ==
    /\ ClockDone
    /\ status_block = [clock |-> <<"5:00">>, period |-> <<2>>,
                       status |-> <<"in progress">>]
    /\ clock_minutes = <<1500>>

\* the clock is missing or is not "minutes:seconds" (no colon, one part
\* too many, a part that is no number)
ClockUnparsable ==
    \/ status_block.clock = <<>>
    \/ status_block.clock[1] \notin DOMAIN SecondsLeft

\* C21: when the status is neither finished nor not started and the clock
\* cannot be parsed as "minutes:seconds", or the period is unusable,
\* minutes_played is the half-played fallback of 30 minutes.
C21_UnparsableClockIsHalfPlayed ==
    (/\ ClockDone
     /\ ~StatusFinished /\ ~StatusNotStarted
     /\ ClockUnparsable \/ status_block.period = <<>>)
        => clock_minutes = <<HalfPlayedFallback>>

==========================================================================
